---- MODULE Spec2Model ----
(***************************************************************************)
(* Model of src/server/server.py: the SystemVerilog language server.       *)
(*                                                                         *)
(* A text is a sequence of characters, a character is a one-element token. *)
(* A Python call either returns a value or raises; both outcomes are       *)
(* values of the model (Returned / Raised), so that "the handler raises"   *)
(* is a state the model reaches and not a stuck behaviour.                 *)
(***************************************************************************)
EXTENDS Naturals, Sequences, FiniteSets

VARIABLES
    documents,  \* ls.documents: a dict, the function from its keys to the texts
    published,  \* the diagnostics the client holds: uri -> the last list published
    sent,       \* publishDiagnostics notifications sent by the handler
    note,       \* the notification the handler is invoked with
    outcome,    \* how the handler ended: "none", "returned" or an exception
    text,       \* Edit Applicator under test: its text argument
    changes,    \* Edit Applicator under test: its changes argument
    result,     \* Edit Applicator under test: what the call did
    apc,        \* Edit Applicator under test: "call" before, "done" after
    tree,       \* Diagnostic Extractor under test: its tree argument
    diagnostics,\* Diagnostic Extractor under test: the list it returned
    xpc,        \* Diagnostic Extractor under test: "call" before, "done" after
    pc,         \* the host's event loop: "ready", "handling" or "handled"
    tasks,      \* the coroutines the event loop has scheduled and not yet run
    serial      \* the store and the client's diagnostics had each notification
                \* been handled alone, on its arrival

vars == <<documents, published, sent, note, outcome, pc, text, changes, result, apc,
          tree, diagnostics, xpc, tasks, serial>>

loopVars == <<tasks, serial>>
serverVars == <<documents, published, sent, note, outcome, pc, loopVars>>
applyVars == <<changes, result, apc>>
extractVars == <<tree, diagnostics, xpc>>

--------------------------------------------------------------------------
(* Bounds of the model *)

\* longest text argument of the applicator
MaxLen == 3
\* largest size of a batch handed to the applicator (see ChangeWeight)
MaxBatchWeight == 5
\* longest text a notification carries on open or leaves in the store
MaxDocLen == 1
\* largest size of the batch of a change notification (see ChangeWeight)
MaxNoteWeight == 4
\* most nodes of a syntax tree handed to the extractor
MaxNodes == 4
\* most coroutines scheduled and not yet run
MaxPending == 2
\* largest size of the batch of a change notification that waits its turn
MaxLoopWeight == 1

--------------------------------------------------------------------------
(* Values *)

NL == "\n"

\* "U+D800" stands for a lone surrogate, which str allows and UTF-8 does not
Surrogate == "U+D800"

Char == {"a", NL, Surrogate}

\* "U+00E9" stands for e with acute accent: one character of a str, two bytes
\* of its UTF-8 encoding
Wide == "U+00E9"

\* Python's None; a record so that it compares with Range records
None == [none |-> TRUE]

\* DictSet that makes a new dict of the one entry: d = {key: value}
DictOfOneEntry(d, key, value) == [k \in {key} |-> value]

\* d[key] = value on a dict
DictSet(d, key, value) ==
    [k \in DOMAIN d \cup {key} |-> IF k = key THEN value ELSE d[k]]

Uri == {"u1", "u2"}

RECURSIVE SeqsUpTo(_, _)
SeqsUpTo(S, n) ==
    IF n = 0 THEN {<<>>}
    ELSE LET shorter == SeqsUpTo(S, n - 1)
         IN  shorter \cup {Append(s, x) : s \in {t \in shorter : Len(t) = n - 1}, x \in S}

SeqsOfLen(S, n) == {t \in SeqsUpTo(S, n) : Len(t) = n}

\* lsprotocol.types.Position with line and character up to k
Position(k) == [line : 0..k, character : 0..k]

PosLeq(p, q) ==
    \/ p.line < q.line
    \/ p.line = q.line /\ p.character <= q.character

RangeWeight(r) == r.start.line + r.start.character + r.end.line + r.end.character

\* lsprotocol.types.Range, start not after end, its four numbers adding up to k
Range(k) ==
    {r \in [start : Position(k), end : Position(k)] :
        PosLeq(r.start, r.end) /\ RangeWeight(r) = k}

\* the size of a change: one, its characters and the numbers of its range
ChangeWeight(c) ==
    1 + Len(c.text) + (IF c.range = None THEN 0 ELSE RangeWeight(c.range))

\* lsprotocol.types.TextDocumentContentChangeEvent, of size w
ContentChange(w) ==
    {[range |-> None, text |-> t] : t \in SeqsOfLen(Char, w - 1)}
    \cup UNION {{[range |-> r, text |-> t] : r \in Range(k), t \in SeqsOfLen(Char, w - 1 - k)} :
                   k \in 0..(w - 1)}

\* List[TextDocumentContentChangeEvent]: the batches of total size up to w
RECURSIVE BatchesUpTo(_)
BatchesUpTo(w) ==
    {<<>>} \cup UNION {{<<c>> \o b : c \in ContentChange(k), b \in BatchesUpTo(w - k)} :
                          k \in 1..w}

Batch == BatchesUpTo(MaxBatchWeight)

Text == SeqsUpTo(Char, MaxLen)

\* a call that returned v
Returned(v) == [raised |-> FALSE, exc |-> "", value |-> v]

\* a call that raised exception e
Raised(e) == [raised |-> TRUE, exc |-> e, value |-> <<>>]

Min(a, b) == IF a <= b THEN a ELSE b

--------------------------------------------------------------------------
(* str and list operations of Python *)

\* s[:k]
Prefix(s, k) == SubSeq(s, 1, Min(k, Len(s)))

\* s[k:]
Suffix(s, k) == SubSeq(s, Min(k, Len(s)) + 1, Len(s))

\* index of the first NL of s, 0 when there is none
RECURSIVE FirstNL(_, _)
FirstNL(s, i) ==
    IF i > Len(s) THEN 0
    ELSE IF s[i] = NL THEN i
    ELSE FirstNL(s, i + 1)

\* s.split('\n')
RECURSIVE Split(_)
Split(s) ==
    LET i == FirstNL(s, 1)
    IN  IF i = 0 THEN <<s>>
        ELSE <<SubSeq(s, 1, i - 1)>> \o Split(SubSeq(s, i + 1, Len(s)))

\* Join that puts no line break between the lines: ''.join(lines)
RECURSIVE JoinWithoutSeparator(_)
JoinWithoutSeparator(lines) ==
    IF lines = <<>> THEN <<>>
    ELSE lines[1] \o JoinWithoutSeparator(Tail(lines))

\* '\n'.join(lines)
RECURSIVE Join(_)
Join(lines) ==
    IF lines = <<>> THEN <<>>
    ELSE IF Len(lines) = 1 THEN lines[1]
    ELSE lines[1] \o <<NL>> \o Join(Tail(lines))

\* lines[i:j] = new_lines
SliceAssign(lines, i, j, new_lines) ==
    LET lo == Min(i, Len(lines))
        hi == IF Min(j, Len(lines)) < lo THEN lo ELSE Min(j, Len(lines))
    IN  Prefix(lines, lo) \o new_lines \o Suffix(lines, hi)

--------------------------------------------------------------------------
(* SystemVerilogLanguageServer._apply_incremental_changes *)

\* the sort key (c.range.start.line, c.range.start.character) compared as tuples
KeyLess(c, d) ==
    \/ c.range.start.line < d.range.start.line
    \/ /\ c.range.start.line = d.range.start.line
       /\ c.range.start.character < d.range.start.character

\* c put into a list that is sorted descending, after the entries not less than it
RECURSIVE InsertDescending(_, _)
InsertDescending(c, sorted) ==
    IF sorted = <<>> THEN <<c>>
    ELSE IF KeyLess(Head(sorted), c) THEN <<c>> \o sorted
    ELSE <<Head(sorted)>> \o InsertDescending(c, Tail(sorted))

\* sorted(cs, key=..., reverse=True): descending, equal keys in their given order
RECURSIVE SortDescending(_, _)
SortDescending(cs, acc) ==
    IF cs = <<>> THEN acc
    ELSE SortDescending(Tail(cs), InsertDescending(Head(cs), acc))

\* the key function reads c.range.start of every change before any comparison
SortedChanges(cs) ==
    IF \E i \in 1..Len(cs) : cs[i].range = None
    THEN Raised("AttributeError")
    ELSE Returned(SortDescending(cs, <<>>))

\* ApplyChange whose multi-line branch assigns to lines[start_line:end_line],
\* leaving the end line in place
ApplyChangeKeepsEndLine(lines, change) ==
    LET start_line == change.range.start.line
        start_char == change.range.start.character
        end_line == change.range.end.line
        end_char == change.range.end.character
    IN  IF start_line = end_line
        THEN IF start_line >= Len(lines)
             THEN Raised("IndexError")
             ELSE LET line == lines[start_line + 1]
                  IN  Returned([lines EXCEPT ![start_line + 1] =
                          Prefix(line, start_char) \o change.text \o Suffix(line, end_char)])
        ELSE LET before == IF start_line < Len(lines)
                           THEN Prefix(lines[start_line + 1], start_char) ELSE <<>>
                 after == IF end_line < Len(lines)
                          THEN Suffix(lines[end_line + 1], end_char) ELSE <<>>
                 new_lines == Split(before \o change.text \o after)
             IN  Returned(SliceAssign(lines, start_line, end_line, new_lines))

\* the body of the loop for one change with a range
ApplyChange(lines, change) ==
    LET start_line == change.range.start.line
        start_char == change.range.start.character
        end_line == change.range.end.line
        end_char == change.range.end.character
    IN  IF start_line = end_line
        THEN IF start_line >= Len(lines)
             THEN Raised("IndexError")
             ELSE LET line == lines[start_line + 1]
                  IN  Returned([lines EXCEPT ![start_line + 1] =
                          Prefix(line, start_char) \o change.text \o Suffix(line, end_char)])
        ELSE LET before == IF start_line < Len(lines)
                           THEN Prefix(lines[start_line + 1], start_char) ELSE <<>>
                 after == IF end_line < Len(lines)
                          THEN Suffix(lines[end_line + 1], end_char) ELSE <<>>
                 new_lines == Split(before \o change.text \o after)
             IN  Returned(SliceAssign(lines, start_line, end_line + 1, new_lines))

\* for change in sorted_changes: ...; return '\n'.join(lines)
RECURSIVE ApplyLoop(_, _)
ApplyLoop(lines, sorted_changes) ==
    IF sorted_changes = <<>> THEN Returned(Join(lines))
    ELSE LET change == Head(sorted_changes)
         IN  IF change.range = None THEN Returned(change.text)
             ELSE LET step == ApplyChange(lines, change)
                  IN  IF step.raised THEN step
                      ELSE ApplyLoop(step.value, Tail(sorted_changes))

ApplyIncrementalChanges(t, cs) ==
    LET lines == Split(t)
        sorted_changes == SortedChanges(cs)
    IN  IF sorted_changes.raised THEN sorted_changes
        ELSE ApplyLoop(lines, sorted_changes.value)

--------------------------------------------------------------------------
(* Syntax trees: what the code reads of tree_sitter.Node and Tree *)

Point(row, column) == <<row, column>>

Node(type, is_missing, start_byte, end_byte, children) ==
    [type |-> type, is_missing |-> is_missing,
     start_byte |-> start_byte, end_byte |-> end_byte,
     start_point |-> Point(0, start_byte), end_point |-> Point(0, end_byte),
     children |-> children]

\* node n as a root node, of which the code also reads has_error
RootNode(n, has_error) ==
    [type |-> n.type, is_missing |-> n.is_missing,
     start_byte |-> n.start_byte, end_byte |-> n.end_byte,
     start_point |-> n.start_point, end_point |-> n.end_point,
     children |-> n.children, has_error |-> has_error]

Tree(root_node) == [root_node |-> root_node]

--------------------------------------------------------------------------
(* SystemVerilogLanguageServer._node_to_range, _find_syntax_errors,
   _get_diagnostics *)

\* s[i:j]
Slice(s, i, j) == SubSeq(s, Min(i, Len(s)) + 1, Min(j, Len(s)))

NodeToRange(n) ==
    [start |-> [line |-> n.start_point[1], character |-> n.start_point[2]],
     end |-> [line |-> n.end_point[1], character |-> n.end_point[2]]]

Diagnostic(range, severity, message) ==
    [range |-> range, severity |-> severity, message |-> message]

\* f"Syntax error: '{error_text}'"
SyntaxErrorMessage(error_text) == [fmt |-> "Syntax error: '{}'", arg |-> error_text]

MissingTokenMessage == [fmt |-> "Missing token", arg |-> <<>>]

ParseFailedMessage ==
    [fmt |-> "Failed to parse Verilog code - tree-sitter parser not available",
     arg |-> <<>>]

\* Visit with the missing check made independent of the ERROR check
VisitBothChecks(n, t) ==
    (IF n.type = "ERROR"
     THEN <<Diagnostic(NodeToRange(n), "Error",
                       SyntaxErrorMessage(Slice(t, n.start_byte, n.end_byte)))>>
     ELSE <<>>)
    \o (IF n.is_missing
        THEN <<Diagnostic(NodeToRange(n), "Error", MissingTokenMessage)>>
        ELSE <<>>)

\* what traverse appends for node n itself
Visit(n, t) ==
    IF n.type = "ERROR"
    THEN <<Diagnostic(NodeToRange(n), "Error",
                      SyntaxErrorMessage(Slice(t, n.start_byte, n.end_byte)))>>
    ELSE IF n.is_missing
    THEN <<Diagnostic(NodeToRange(n), "Error", MissingTokenMessage)>>
    ELSE <<>>

\* Traverse that does not descend below an ERROR node
RECURSIVE TraverseStopBelowError(_, _, _)
TraverseStopBelowError(n, i, t) ==
    IF i = 0
    THEN Visit(n, t) \o (IF n.type = "ERROR" THEN <<>> ELSE TraverseStopBelowError(n, 1, t))
    ELSE IF i > Len(n.children) THEN <<>>
    ELSE TraverseStopBelowError(n.children[i], 0, t) \o TraverseStopBelowError(n, i + 1, t)

\* traverse(n): the node, then each child in order; i is the next child to visit
RECURSIVE Traverse(_, _, _)
Traverse(n, i, t) ==
    IF i = 0 THEN Visit(n, t) \o Traverse(n, 1, t)
    ELSE IF i > Len(n.children) THEN <<>>
    ELSE Traverse(n.children[i], 0, t) \o Traverse(n, i + 1, t)

FindSyntaxErrors(node, t) == Traverse(node, 0, t)

\* GetDiagnostics that reports nothing when there is no tree
GetDiagnosticsSilentOnFailure(tr, t) ==
    IF tr = None THEN <<>> ELSE FindSyntaxErrors(tr.root_node, t)

\* GetDiagnostics that reports a generic error at (0,0)-(0,0) when the
\* traversal found nothing and the root node has its has_error flag set
GetDiagnosticsReportsErrorFlag(tr, t) ==
    IF tr = None
    THEN <<Diagnostic([start |-> [line |-> 0, character |-> 0],
                       end |-> [line |-> 0, character |-> 0]],
                      "Error", ParseFailedMessage)>>
    ELSE IF FindSyntaxErrors(tr.root_node, t) = <<>> /\ tr.root_node.has_error
    THEN <<Diagnostic([start |-> [line |-> 0, character |-> 0],
                       end |-> [line |-> 0, character |-> 0]],
                      "Error", [fmt |-> "Syntax error", arg |-> <<>>])>>
    ELSE FindSyntaxErrors(tr.root_node, t)

\* root_node.has_error is read for a log line only
GetDiagnostics(tr, t) ==
    IF tr = None
    THEN <<Diagnostic([start |-> [line |-> 0, character |-> 0],
                       end |-> [line |-> 0, character |-> 0]],
                      "Error", ParseFailedMessage)>>
    ELSE FindSyntaxErrors(tr.root_node, t)

--------------------------------------------------------------------------
(* SystemVerilogLanguageServer._parse and _analyze_document *)

\* the UTF-8 bytes of one character: 0xC3 0xA9 for U+00E9, the character's own
\* code for an ASCII character
Utf8Char(c) == IF c = Wide THEN <<"0xC3", "0xA9">> ELSE <<c>>

RECURSIVE Encode(_)
Encode(t) == IF t = <<>> THEN <<>> ELSE Utf8Char(Head(t)) \o Encode(Tail(t))

\* bytes(text, "utf8"): a lone surrogate has no UTF-8 encoding
Utf8(t) ==
    IF \E i \in 1..Len(t) : t[i] = Surrogate
    THEN Raised("UnicodeEncodeError")
    ELSE Returned(Encode(t))

\* end of the run of bytes other than NL that starts at i
RECURSIVE RunEnd(_, _)
RunEnd(bytes, i) ==
    IF i > Len(bytes) \/ bytes[i] = NL THEN i ELSE RunEnd(bytes, i + 1)

\* The parser is an external library. This stands for it: every run of bytes
\* that is no line break is an ERROR node over an identifier (a bare identifier
\* is no SystemVerilog description), with the row and column of its bytes.
ParserNode(type, children, i, j, row, col) ==
    [type |-> type, is_missing |-> FALSE,
     start_byte |-> i - 1, end_byte |-> j - 1,
     start_point |-> Point(row, col), end_point |-> Point(row, col + (j - i)),
     children |-> children]

RECURSIVE ParserNodes(_, _, _, _)
ParserNodes(bytes, i, row, col) ==
    IF i > Len(bytes) THEN <<>>
    ELSE IF bytes[i] = NL THEN ParserNodes(bytes, i + 1, row + 1, 0)
    ELSE LET j == RunEnd(bytes, i)
             leaf == ParserNode("simple_identifier", <<>>, i, j, row, col)
             err == ParserNode("ERROR", <<leaf>>, i, j, row, col)
         IN  <<err>> \o ParserNodes(bytes, j, row, col + (j - i))

\* self.parser.parse(bytes)
ParserParse(bytes) ==
    LET kids == ParserNodes(bytes, 1, 0, 0)
        root == [type |-> "source_file", is_missing |-> FALSE,
                 start_byte |-> 0, end_byte |-> Len(bytes),
                 start_point |-> Point(0, 0),
                 end_point |-> Point(Len(Split(bytes)) - 1,
                                     Len(Split(bytes)[Len(Split(bytes))])),
                 children |-> kids, has_error |-> kids # <<>>]
    IN  Tree(root)

\* try: return self.parser.parse(bytes(text, "utf8")) except Exception: return None
Parse(t) ==
    LET bytes == Utf8(t)
    IN  IF bytes.raised THEN None ELSE ParserParse(bytes.value)

AnalyzeDocument(t) == GetDiagnostics(Parse(t), t)

--------------------------------------------------------------------------
(* The handlers: did_open and did_change *)

NoteText == SeqsUpTo(Char, MaxDocLen)

NoteBatch == BatchesUpTo(MaxNoteWeight)

\* ls.documents.get(uri, "")
DocumentsGet(docs, uri) == IF uri \in DOMAIN docs THEN docs[uri] ELSE <<>>

\* NewText that hands every batch to the applicator
NewTextAlwaysIncremental(current_text, content_changes) ==
    ApplyIncrementalChanges(current_text, content_changes)

\* the text did_change computes from the stored text and a batch that is not empty
NewText(current_text, content_changes) ==
    LET first_change == content_changes[1]
    IN  IF first_change.range = None
        THEN Returned(first_change.text)
        ELSE ApplyIncrementalChanges(current_text, content_changes)

\* ls.publish_diagnostics(uri, diagnostics)
Publish(uri, diags) == [uri |-> uri, diagnostics |-> diags]

ServerIdle ==
    /\ documents = <<>>
    /\ published = <<>>
    /\ sent = <<>>
    /\ note = [op |-> "none"]
    /\ outcome = "none"
    /\ pc = "ready"
    /\ tasks = <<>>
    /\ serial = [documents |-> <<>>, published |-> <<>>]

ApplyIdle ==
    /\ text = <<>>
    /\ changes = <<>>
    /\ result = Returned(<<>>)
    /\ apc = "idle"

ExtractIdle ==
    /\ tree = None
    /\ diagnostics = <<>>
    /\ xpc = "idle"

Init ==
    /\ ServerIdle
    /\ ApplyIdle
    /\ ExtractIdle

\* the text a change notification leaves in the store stays within MaxDocLen
WithinBounds(uri, content_changes) ==
    IF content_changes = <<>> THEN TRUE
    ELSE LET new_text == NewText(DocumentsGet(documents, uri), content_changes)
         IN  IF new_text.raised THEN TRUE ELSE Len(new_text.value) <= MaxDocLen

\* the host dispatches a textDocument/didOpen notification to did_open
ReceiveOpen ==
    /\ pc = "ready"
    /\ \E uri \in Uri, t \in NoteText :
          note' = [op |-> "open", uri |-> uri, text |-> t]
    /\ pc' = "handling"
    /\ UNCHANGED <<documents, published, sent, outcome, text, applyVars, extractVars, loopVars>>

\* the host dispatches a textDocument/didChange notification to did_change
ReceiveChange ==
    /\ pc = "ready"
    /\ \E uri \in Uri, content_changes \in NoteBatch :
          /\ WithinBounds(uri, content_changes)
          /\ note' = [op |-> "change", uri |-> uri, changes |-> content_changes]
    /\ pc' = "handling"
    /\ UNCHANGED <<documents, published, sent, outcome, text, applyVars, extractVars, loopVars>>

\* the client sends textDocument/didClose (initialize answers open_close=True)
ReceiveClose ==
    /\ pc = "ready"
    /\ \E uri \in Uri : note' = [op |-> "close", uri |-> uri]
    /\ pc' = "handling"
    /\ UNCHANGED <<documents, published, sent, outcome, text, applyVars, extractVars, loopVars>>

\* no handler is registered for textDocument/didClose: nothing of the server
\* runs on it
IgnoreClose ==
    /\ pc = "handling"
    /\ note.op = "close"
    /\ outcome' = "no handler"
    /\ pc' = "handled"
    /\ UNCHANGED <<documents, published, sent, note, text, applyVars, extractVars, loopVars>>

DidOpen ==
    /\ pc = "handling"
    /\ note.op = "open"
    /\ LET uri == note.uri
           t == note.text
           diags == AnalyzeDocument(t)
       IN  /\ documents' = DictSet(documents, uri, t)
           /\ published' = DictSet(published, uri, diags)
           /\ sent' = <<Publish(uri, diags)>>
           /\ outcome' = "returned"
    /\ pc' = "handled"
    /\ UNCHANGED <<note, text, applyVars, extractVars, loopVars>>

\* DidChange without the early return on an empty batch, the empty batch
\* being applied to the stored text like any other
DidChangeNoEmptyGuard ==
    /\ pc = "handling"
    /\ note.op = "change"
    /\ LET uri == note.uri
           content_changes == note.changes
           current_text == DocumentsGet(documents, uri)
           new_text == IF content_changes = <<>>
                       THEN ApplyIncrementalChanges(current_text, content_changes)
                       ELSE NewText(current_text, content_changes)
       IN  IF new_text.raised
           THEN /\ outcome' = new_text.exc
                /\ UNCHANGED <<documents, published, sent>>
           ELSE LET diags == AnalyzeDocument(new_text.value)
                IN  /\ outcome' = "returned"
                    /\ documents' = DictSet(documents, uri, new_text.value)
                    /\ published' = DictSet(published, uri, diags)
                    /\ sent' = <<Publish(uri, diags)>>
    /\ pc' = "handled"
    /\ UNCHANGED <<note, text, applyVars, extractVars, loopVars>>

\* DidChange with an await between its read of the store and the rest: the
\* coroutine is put back behind the scheduled ones, holding current_text
DidChangeAwaitsAfterRead ==
    /\ pc = "handling"
    /\ note.op = "change"
    /\ LET uri == note.uri
           content_changes == note.changes
       IN  IF content_changes = <<>>
           THEN /\ outcome' = "returned"
                /\ UNCHANGED <<documents, published, sent, tasks>>
           ELSE IF "current_text" \notin DOMAIN note
           THEN /\ tasks' = Append(tasks, [op |-> "change", uri |-> uri,
                                           changes |-> content_changes,
                                           current_text |-> DocumentsGet(documents, uri)])
                /\ outcome' = "awaiting"
                /\ UNCHANGED <<documents, published, sent>>
           ELSE LET new_text == NewText(note.current_text, content_changes)
                IN  /\ tasks' = tasks
                    /\ IF new_text.raised
                       THEN /\ outcome' = new_text.exc
                            /\ UNCHANGED <<documents, published, sent>>
                       ELSE LET diags == AnalyzeDocument(new_text.value)
                            IN  /\ outcome' = "returned"
                                /\ documents' = DictSet(documents, uri, new_text.value)
                                /\ published' = DictSet(published, uri, diags)
                                /\ sent' = <<Publish(uri, diags)>>
    /\ pc' = "handled"
    /\ UNCHANGED <<note, serial, text, applyVars, extractVars>>

\* DidChange that analyses the text it read from the store, not the new one
DidChangeAnalysesOldText ==
    /\ pc = "handling"
    /\ note.op = "change"
    /\ LET uri == note.uri
           content_changes == note.changes
       IN  IF content_changes = <<>>
           THEN /\ outcome' = "returned"
                /\ UNCHANGED <<documents, published, sent>>
           ELSE LET current_text == DocumentsGet(documents, uri)
                    new_text == NewText(current_text, content_changes)
                IN  IF new_text.raised
                    THEN /\ outcome' = new_text.exc
                         /\ UNCHANGED <<documents, published, sent>>
                    ELSE LET diags == AnalyzeDocument(current_text)
                         IN  /\ outcome' = "returned"
                             /\ documents' = DictSet(documents, uri, new_text.value)
                             /\ published' = DictSet(published, uri, diags)
                             /\ sent' = <<Publish(uri, diags)>>
    /\ pc' = "handled"
    /\ UNCHANGED <<note, text, applyVars, extractVars, loopVars>>

\* DidChange that reads the store with ls.documents.setdefault(uri, ""), so
\* that the uri has an entry before the batch is applied
DidChangeSetsDefault ==
    /\ pc = "handling"
    /\ note.op = "change"
    /\ LET uri == note.uri
           content_changes == note.changes
       IN  IF content_changes = <<>>
           THEN /\ outcome' = "returned"
                /\ UNCHANGED <<documents, published, sent>>
           ELSE LET current_text == DocumentsGet(documents, uri)
                    new_text == NewText(current_text, content_changes)
                IN  IF new_text.raised
                    THEN /\ outcome' = new_text.exc
                         /\ documents' = DictSet(documents, uri, current_text)
                         /\ UNCHANGED <<published, sent>>
                    ELSE LET diags == AnalyzeDocument(new_text.value)
                         IN  /\ outcome' = "returned"
                             /\ documents' = DictSet(documents, uri, new_text.value)
                             /\ published' = DictSet(published, uri, diags)
                             /\ sent' = <<Publish(uri, diags)>>
    /\ pc' = "handled"
    /\ UNCHANGED <<note, text, applyVars, extractVars, loopVars>>

DidChange ==
    /\ pc = "handling"
    /\ note.op = "change"
    /\ LET uri == note.uri
           content_changes == note.changes
       IN  IF content_changes = <<>>
           THEN /\ outcome' = "returned"
                /\ UNCHANGED <<documents, published, sent>>
           ELSE LET current_text == DocumentsGet(documents, uri)
                    new_text == NewText(current_text, content_changes)
                IN  IF new_text.raised
                    THEN /\ outcome' = new_text.exc
                         /\ UNCHANGED <<documents, published, sent>>
                    ELSE LET diags == AnalyzeDocument(new_text.value)
                         IN  /\ outcome' = "returned"
                             /\ documents' = DictSet(documents, uri, new_text.value)
                             /\ published' = DictSet(published, uri, diags)
                             /\ sent' = <<Publish(uri, diags)>>
    /\ pc' = "handled"
    /\ UNCHANGED <<note, text, applyVars, extractVars, loopVars>>

\* the handler's coroutine has ended; the host waits for the next notification
HandlerDone ==
    /\ pc = "handled"
    /\ pc' = "ready"
    /\ note' = [op |-> "none"]
    /\ outcome' = "none"
    /\ sent' = <<>>
    /\ UNCHANGED <<documents, published, text, applyVars, extractVars, loopVars>>

Next ==
    \/ ReceiveOpen
    \/ ReceiveChange
    \/ ReceiveClose
    \/ IgnoreClose
    \/ DidOpen
    \/ DidChange
    \/ HandlerDone

Spec == Init /\ [][Next]_vars

--------------------------------------------------------------------------
(* The host's event loop with several notifications in flight: did_open and
   did_change are coroutines (async def), the host schedules one per
   notification and the loop runs the scheduled coroutines in turn, each up to
   its next await; neither handler awaits anything. *)

LoopBatch == BatchesUpTo(MaxLoopWeight)

\* the document the notifications in flight are about
LoopUri == {"u1"}

\* what handling notification n alone makes of the store and the diagnostics
SerialHandle(store, n) ==
    IF n.op = "open"
    THEN [documents |-> DictSet(store.documents, n.uri, n.text),
          published |-> DictSet(store.published, n.uri, AnalyzeDocument(n.text))]
    ELSE IF n.changes = <<>> THEN store
    ELSE LET new_text == NewText(DocumentsGet(store.documents, n.uri), n.changes)
         IN  IF new_text.raised THEN store
             ELSE [documents |-> DictSet(store.documents, n.uri, new_text.value),
                   published |-> DictSet(store.published, n.uri,
                                         AnalyzeDocument(new_text.value))]

\* a textDocument/didOpen notification arrives: its coroutine is scheduled
ArriveOpen ==
    /\ pc = "ready"
    /\ Len(tasks) < MaxPending
    /\ \E uri \in LoopUri, t \in NoteText :
          LET n == [op |-> "open", uri |-> uri, text |-> t]
          IN  /\ tasks' = Append(tasks, n)
              /\ serial' = SerialHandle(serial, n)
    /\ UNCHANGED <<documents, published, sent, note, outcome, pc, text, applyVars,
                   extractVars>>

\* a textDocument/didChange notification arrives: its coroutine is scheduled
ArriveChange ==
    /\ pc = "ready"
    /\ Len(tasks) < MaxPending
    /\ \E uri \in LoopUri, content_changes \in LoopBatch :
          LET n == [op |-> "change", uri |-> uri, changes |-> content_changes]
          IN  /\ \A u \in DOMAIN SerialHandle(serial, n).documents :
                    Len(SerialHandle(serial, n).documents[u]) <= MaxDocLen
              /\ tasks' = Append(tasks, n)
              /\ serial' = SerialHandle(serial, n)
    /\ UNCHANGED <<documents, published, sent, note, outcome, pc, text, applyVars,
                   extractVars>>

\* the loop runs the coroutine scheduled first
StartTask ==
    /\ pc = "ready"
    /\ tasks # <<>>
    /\ note' = Head(tasks)
    /\ tasks' = Tail(tasks)
    /\ pc' = "handling"
    /\ UNCHANGED <<documents, published, sent, outcome, serial, text, applyVars,
                   extractVars>>

NextLoop ==
    \/ ArriveOpen
    \/ ArriveChange
    \/ StartTask
    \/ DidOpen
    \/ DidChange
    \/ HandlerDone

SpecLoop == Init /\ [][NextLoop]_vars

--------------------------------------------------------------------------
(* The Edit Applicator called on its own *)

InitApply ==
    /\ ServerIdle
    /\ text \in Text
    /\ changes \in Batch
    /\ result = Returned(<<>>)
    /\ apc = "call"
    /\ ExtractIdle

CallApply ==
    /\ apc = "call"
    /\ result' = ApplyIncrementalChanges(text, changes)
    /\ apc' = "done"
    /\ UNCHANGED <<serverVars, text, changes, extractVars>>

NextApply == CallApply

SpecApply == InitApply /\ [][NextApply]_vars

--------------------------------------------------------------------------
(* The Diagnostic Extractor called on its own *)

NodeType == {"ERROR", "identifier"}

\* every tree of exactly n nodes whose first byte is at off: a leaf spans one
\* byte, a missing leaf none, an inner node the bytes of its children
RECURSIVE TreesOf(_, _), ForestsOf(_, _)
TreesOf(n, off) ==
    IF n = 1
    THEN {Node(ty, miss, off, IF miss THEN off ELSE off + 1, <<>>) :
             ty \in NodeType, miss \in BOOLEAN}
    ELSE {Node(ty, miss, off, f[Len(f)].end_byte, f) :
             ty \in NodeType, miss \in BOOLEAN, f \in ForestsOf(n - 1, off)}

ForestsOf(m, off) ==
    IF m = 0 THEN {<<>>}
    ELSE UNION {UNION {{<<t>> \o f : f \in ForestsOf(m - k, t.end_byte)} :
                          t \in TreesOf(k, off)} : k \in 1..m}

XTree ==
    {None} \cup {Tree(RootNode(root, he)) : root \in UNION {TreesOf(n, 0) : n \in 1..MaxNodes},
                                  he \in BOOLEAN}

\* the text argument of the extractor
XText == SeqsOfLen({"a", NL}, MaxLen)

InitExtract ==
    /\ ServerIdle
    /\ changes = <<>>
    /\ result = Returned(<<>>)
    /\ apc = "idle"
    /\ text \in XText
    /\ tree \in XTree
    /\ diagnostics = <<>>
    /\ xpc = "call"

CallExtract ==
    /\ xpc = "call"
    /\ diagnostics' = GetDiagnostics(tree, text)
    /\ xpc' = "done"
    /\ UNCHANGED <<serverVars, text, applyVars, tree>>

NextExtract == CallExtract

SpecExtract == InitExtract /\ [][NextExtract]_vars

--------------------------------------------------------------------------
(* _analyze_document called on its own, on texts that hold a character of
   more than one byte *)

AnalyzeText == SeqsUpTo(Char \cup {Wide}, MaxLen)

InitAnalyze ==
    /\ ServerIdle
    /\ changes = <<>>
    /\ result = Returned(<<>>)
    /\ apc = "idle"
    /\ text \in AnalyzeText
    /\ tree = None
    /\ diagnostics = <<>>
    /\ xpc = "call"

\* tree = self._parse(text); diagnostics = self._get_diagnostics(tree, text)
CallAnalyze ==
    /\ xpc = "call"
    /\ tree' = Parse(text)
    /\ diagnostics' = AnalyzeDocument(text)
    /\ xpc' = "done"
    /\ UNCHANGED <<serverVars, text, applyVars>>

NextAnalyze == CallAnalyze

SpecAnalyze == InitAnalyze /\ [][NextAnalyze]_vars

--------------------------------------------------------------------------
(* Properties of the Edit Applicator *)

Max(a, b) == IF a >= b THEN a ELSE b

HasNoRange(cs) == \E i \in 1..Len(cs) : cs[i].range = None

\* number of characters of the text before line k (lines counted from 0)
RECURSIVE LineOffset(_, _)
LineOffset(lines, k) ==
    IF k = 0 THEN 0 ELSE LineOffset(lines, k - 1) + Len(lines[k]) + 1

\* number of characters of the text before position pos
Offset(lines, pos) == LineOffset(lines, pos.line) + pos.character

PosInBounds(lines, pos) ==
    /\ pos.line < Len(lines)
    /\ pos.character <= Len(lines[pos.line + 1])

InBounds(t, c) ==
    /\ PosInBounds(Split(t), c.range.start)
    /\ PosInBounds(Split(t), c.range.end)
    /\ PosLeq(c.range.start, c.range.end)

StartOffset(t, c) == Offset(Split(t), c.range.start)
EndOffset(t, c) == Offset(Split(t), c.range.end)

\* no character of t lies in the ranges of both c and d
NonOverlapping(t, c, d) ==
    \/ EndOffset(t, c) <= StartOffset(t, d)
    \/ EndOffset(t, d) <= StartOffset(t, c)

\* the orders of n edits
Orders(n) == {f \in [1..n -> 1..n] : \A i, j \in 1..n : f[i] = f[j] => i = j}

\* f lists the edits by where they start in t
ByStart(t, cs, f) ==
    \A i, j \in 1..Len(cs) : i < j => StartOffset(t, cs[f[i]]) <= StartOffset(t, cs[f[j]])

\* t with the range of every edit replaced by the edit's text, the edits taken
\* in the order f from the k-th on, the characters before cursor being done
RECURSIVE Replaced(_, _, _, _, _)
Replaced(t, cs, f, k, cursor) ==
    IF k > Len(cs) THEN Suffix(t, cursor)
    ELSE LET c == cs[f[k]]
         IN  Slice(t, cursor, Max(cursor, StartOffset(t, c))) \o c.text
                 \o Replaced(t, cs, f, k + 1, Max(cursor, EndOffset(t, c)))

\* the texts the batch describes, every range read against t; edits that start
\* at the same place may come in either order
Simultaneous(t, cs) ==
    {Replaced(t, cs, f, 1, 0) : f \in {g \in Orders(Len(cs)) : ByStart(t, cs, g)}}

CleanBatch(t, cs) ==
    /\ Len(cs) >= 2
    /\ ~HasNoRange(cs)
    /\ \A i \in 1..Len(cs) : InBounds(t, cs[i])
    /\ \A i, j \in 1..Len(cs) : i < j => NonOverlapping(t, cs[i], cs[j])

DistinctStarts(cs) ==
    \A i, j \in 1..Len(cs) : i < j => cs[i].range.start # cs[j].range.start

\* C2: a batch that holds a change without a range returns the text of such a
\* change; in particular apply(T, [FullReplace(S)]) returns S.
C2_FullReplaceReturnsItsText ==
    (apc = "done" /\ HasNoRange(changes)) =>
        /\ ~result.raised
        /\ \E i \in 1..Len(changes) :
              changes[i].range = None /\ result.value = changes[i].text

\* C4: a batch of two or more in-bounds, pairwise non-overlapping range edits,
\* in any order, returns the text with every range, read against the text
\* before the batch, replaced by its edit's text.
C4_BatchMatchesSimultaneousReplacement ==
    (apc = "done" /\ CleanBatch(text, changes)) =>
        /\ ~result.raised
        /\ result.value \in Simultaneous(text, changes)

\* the same for batches whose edits start at pairwise different positions
C4_DistinctStartsMatch ==
    (apc = "done" /\ CleanBatch(text, changes) /\ DistinctStarts(changes)) =>
        /\ ~result.raised
        /\ result.value \in Simultaneous(text, changes)

\* the range of c runs from (0,0) to the end of the last line of t
WholeDocument(t, c) ==
    /\ c.range.start = [line |-> 0, character |-> 0]
    /\ c.range.end = [line |-> Len(Split(t)) - 1,
                      character |-> Len(Split(t)[Len(Split(t))])]

\* the batch holds in-bounds range edits only, no two of which overlap
RangeEditsOnly(t, cs) ==
    /\ Len(cs) >= 1
    /\ ~HasNoRange(cs)
    /\ \A i \in 1..Len(cs) : InBounds(t, cs[i])
    /\ \A i, j \in 1..Len(cs) : i < j => NonOverlapping(t, cs[i], cs[j])

\* C15: one range edit that spans the whole of T with text S returns S, as
\* FullReplace(S) does; and a batch of in-bounds, non-overlapping range edits
\* returns the text S that the edits, read against T, describe.
C15_IncrementalEqualsFull ==
    (apc = "done" /\ RangeEditsOnly(text, changes)) =>
        /\ ~result.raised
        /\ result.value \in Simultaneous(text, changes)
        /\ (Len(changes) = 1 /\ WholeDocument(text, changes[1])) =>
              result.value = changes[1].text

\* the part of it about one edit that spans the whole document
C15_WholeDocumentEdit ==
    (/\ apc = "done"
     /\ Len(changes) = 1
     /\ ~HasNoRange(changes)
     /\ WholeDocument(text, changes[1])) =>
        result = Returned(changes[1].text)

\* C16: one in-bounds range edit with text X returns the characters of T
\* before the start position, then X, then the characters of T after the end
\* position; the lines before the start line and after the end line are the
\* lines of T, the start line keeps its characters before the start position
\* and the end line its characters after the end position.
C16_SingleEditSplices ==
    (apc = "done" /\ Len(changes) = 1 /\ ~HasNoRange(changes)
        /\ InBounds(text, changes[1])) =>
        LET c == changes[1]
            old == Split(text)
            new == Split(result.value)
            tail == Len(old) - 1 - c.range.end.line
        IN  /\ ~result.raised
            /\ result.value = Prefix(text, StartOffset(text, c)) \o c.text
                                  \o Suffix(text, EndOffset(text, c))
            /\ Len(new) = c.range.start.line + Len(Split(c.text)) + tail
            /\ \A k \in 1..c.range.start.line : new[k] = old[k]
            /\ \A k \in 1..tail : new[Len(new) - tail + k] = old[Len(old) - tail + k]
            /\ Prefix(new[c.range.start.line + 1], c.range.start.character)
                  = Prefix(old[c.range.start.line + 1], c.range.start.character)
            /\ LET last == new[Len(new) - tail]
                    kept == Suffix(old[c.range.end.line + 1], c.range.end.character)
               IN  Suffix(last, Len(last) - Len(kept)) = kept

C16_Witness ==
    /\ apc = "done"
    /\ Len(changes) = 1
    /\ ~HasNoRange(changes)
    /\ InBounds(text, changes[1])
    /\ changes[1].range.start.line < changes[1].range.end.line
    /\ changes[1].range.start.character > 0
    /\ changes[1].text # <<>>
    /\ ~result.raised
    /\ Len(Split(result.value)) < Len(Split(text))

\* C14 as claimed: the applicator called with an empty batch fails with
\* InvalidEditError and returns no text.
C14_EmptyBatchFails ==
    (apc = "done" /\ changes = <<>>) =>
        /\ result.raised
        /\ result.exc = "InvalidEditError"

\* C14 as amended: the applicator called with an empty batch raises nothing
\* and returns the text it was given, unchanged.
C14_EmptyBatchReturnsText ==
    (apc = "done" /\ changes = <<>>) =>
        /\ ~result.raised
        /\ result.value = text

C14_Witness ==
    /\ apc = "done"
    /\ changes = <<>>
    /\ \E i \in 1..Len(text) : text[i] = NL
    /\ \E i \in 1..Len(text) : text[i] # NL
    /\ result.value = text

--------------------------------------------------------------------------
(* Properties of the handlers *)

\* did_change is about to run on a batch that is not empty
HandlingChange ==
    /\ pc = "handling"
    /\ note.op = "change"
    /\ note.changes # <<>>

\* did_change has run on a batch that is not empty
HandledChange ==
    /\ pc = "handled"
    /\ note.op = "change"
    /\ note.changes # <<>>

\* the handler ended normally, stored t under its uri and published for it
StoredAndPublished(docs, out, snt, uri) ==
    /\ out = "returned"
    /\ uri \in DOMAIN docs
    /\ Len(snt) = 1
    /\ snt[1].uri = uri

\* C1: after did_change on a batch whose first change has no range, the stored
\* text of the uri is that change's text, whatever was stored and whatever
\* the later changes of the batch are.
C1_FirstFullReplaceWins ==
    (HandledChange /\ note.changes[1].range = None) =>
        /\ outcome = "returned"
        /\ note.uri \in DOMAIN documents
        /\ documents[note.uri] = note.changes[1].text

C1_Witness ==
    /\ HandledChange
    /\ Len(note.changes) = 2
    /\ note.changes[1].range = None
    /\ note.changes[2].range # None
    /\ note.changes[2].text # note.changes[1].text
    /\ documents[note.uri] = note.changes[1].text
    /\ documents[note.uri] # <<>>

\* C3: did_change on an empty batch returns and leaves the store and the
\* diagnostics the client holds for every document as they were, and
\* publishes nothing.
C3_EmptyBatchNoOp ==
    [][(pc = "handling" /\ note.op = "change" /\ note.changes = <<>>) =>
          /\ documents' = documents
          /\ published' = published
          /\ sent' = <<>>
          /\ outcome' = "returned"]_vars

C3_Witness ==
    /\ pc = "handled"
    /\ note.op = "change"
    /\ note.changes = <<>>
    /\ note.uri \notin DOMAIN documents
    /\ \E u \in DOMAIN documents : published[u] # <<>>
    /\ sent = <<>>

\* a line of the range lies at or beyond the line count of t
LineOutOfRange(t, c) ==
    \/ c.range.start.line >= Len(Split(t))
    \/ c.range.end.line >= Len(Split(t))

\* C5: did_change on one range edit that addresses a line at or beyond the
\* line count of the stored text completes: it stores a text and publishes.
C5_OutOfRangeEditCompletes ==
    [][(/\ HandlingChange
        /\ Len(note.changes) = 1
        /\ note.changes[1].range # None
        /\ LineOutOfRange(DocumentsGet(documents, note.uri), note.changes[1])) =>
          StoredAndPublished(documents', outcome', sent', note.uri)]_vars

\* C6: did_change on a batch that is not empty, for a uri with no entry in
\* the store, ends normally, leaves an entry for the uri and publishes for it;
\* the entry is S for a full replace by S and for the edit (0,0)-(0,0) with S.
C6_UnknownDocumentRecovers ==
    [][(HandlingChange /\ note.uri \notin DOMAIN documents) =>
          /\ StoredAndPublished(documents', outcome', sent', note.uri)
          /\ (\/ note.changes[1].range = None
              \/ /\ Len(note.changes) = 1
                 /\ note.changes[1].range.start = [line |-> 0, character |-> 0]
                 /\ note.changes[1].range.end = [line |-> 0, character |-> 0]) =>
                documents'[note.uri] = note.changes[1].text]_vars

\* C7: did_change on a batch whose first change is a range edit and which
\* holds a later change without a range does not raise, and stores the text
\* of a change without a range.
C7_MixedBatchShortCircuits ==
    (/\ HandledChange
     /\ note.changes[1].range # None
     /\ HasNoRange(note.changes)) =>
        /\ outcome = "returned"
        /\ note.uri \in DOMAIN documents
        /\ \E i \in 1..Len(note.changes) :
              /\ note.changes[i].range = None
              /\ documents[note.uri] = note.changes[i].text

\* the handler has run the analysis on the text it stored
Analysed ==
    /\ pc = "handled"
    /\ outcome = "returned"
    /\ note.op = "change" => note.changes # <<>>

ZeroRange ==
    [start |-> [line |-> 0, character |-> 0], end |-> [line |-> 0, character |-> 0]]

\* C8: when the parser call raises on the text the handler analyses, the
\* handler still returns and publishes for the uri exactly one diagnostic,
\* with range (0,0)-(0,0) and severity Error.
C8_ParseFailureIsOneDiagnostic ==
    (Analysed /\ Utf8(documents[note.uri]).raised) =>
        /\ Parse(documents[note.uri]) = None
        /\ Len(sent) = 1
        /\ sent[1].uri = note.uri
        /\ Len(sent[1].diagnostics) = 1
        /\ sent[1].diagnostics[1].range = ZeroRange
        /\ sent[1].diagnostics[1].severity = "Error"
        /\ published[note.uri] = sent[1].diagnostics

C8_Witness ==
    /\ Analysed
    /\ note.op = "change"
    /\ Utf8(documents[note.uri]).raised
    /\ Len(sent) = 1
    /\ Len(sent[1].diagnostics) = 1
    /\ sent[1].diagnostics[1].range = ZeroRange

\* C17: every uri with an entry in the store has had diagnostics published,
\* and the diagnostics the client holds for it, the last ones published, are
\* those of the stored text; what a handler publishes is what the client
\* then holds for the uri.
C17_PublishedTracksStore ==
    /\ \A u \in DOMAIN documents :
          /\ u \in DOMAIN published
          /\ published[u] = GetDiagnostics(Parse(documents[u]), documents[u])
    /\ \A i \in 1..Len(sent) : published[sent[i].uri] = sent[i].diagnostics

C17_Witness ==
    /\ HandledChange
    /\ outcome = "returned"
    /\ note.changes[1].range # None
    /\ published[note.uri] # <<>>
    /\ \E u \in DOMAIN documents :
          /\ u # note.uri
          /\ documents[u] # documents[note.uri]
          /\ published[u] # published[note.uri]

\* d and e agree on key: both have no entry for it or both the same one
SameEntry(d, e, key) ==
    /\ key \in DOMAIN d <=> key \in DOMAIN e
    /\ key \in DOMAIN d => d[key] = e[key]

\* C19: did_open or did_change for a uri leaves the store entry (or its
\* absence) and the diagnostics last published of every other uri as they
\* were, and publishes for no other uri.
C19_OtherDocumentsUntouched ==
    [][(pc = "handling" /\ note.op \in {"open", "change"}) =>
          /\ \A u \in Uri \ {note.uri} :
                /\ SameEntry(documents, documents', u)
                /\ SameEntry(published, published', u)
          /\ \A i \in 1..Len(sent') : sent'[i].uri = note.uri]_vars

C19_Witness ==
    /\ pc = "handled"
    /\ note.op = "open"
    /\ documents[note.uri] # <<>>
    /\ \E u \in DOMAIN documents :
          /\ u # note.uri
          /\ documents[u] # <<>>
          /\ documents[u] # documents[note.uri]
          /\ published[u] # <<>>

\* C20: when _apply_incremental_changes raises on the batch of a change
\* notification, the handler ends with that exception, the store and the
\* diagnostics last published of every document are as before the
\* notification and nothing is published; they stay so until the next
\* notification is handled.
C20_FailedChangeLeavesState ==
    [][/\ (/\ HandlingChange
           /\ note.changes[1].range # None
           /\ ApplyIncrementalChanges(DocumentsGet(documents, note.uri),
                                      note.changes).raised) =>
             /\ documents' = documents
             /\ published' = published
             /\ sent' = <<>>
             /\ outcome' \in {"IndexError", "AttributeError"}
       /\ pc \in {"handled", "ready"} =>
             (documents' = documents /\ published' = published)]_vars

C20_Witness ==
    /\ HandledChange
    /\ outcome = "IndexError"
    /\ Len(note.changes) = 1
    /\ note.uri \in DOMAIN documents
    /\ documents[note.uri] # <<>>
    /\ published[note.uri] # <<>>
    /\ sent = <<>>

\* C13: the entry of a document is created on open and removed on close:
\* after did_open the store holds the opened text under the uri, and after a
\* close notification for a uri the store has no entry for it.
C13_CloseRemovesEntry ==
    [][/\ (pc = "handling" /\ note.op = "open") =>
             (note.uri \in DOMAIN documents' /\ documents'[note.uri] = note.text)
       /\ (pc = "handling" /\ note.op = "close") =>
             note.uri \notin DOMAIN documents']_vars

\* the part of it about open
C13_OpenCreatesEntry ==
    [][(pc = "handling" /\ note.op = "open") =>
          (note.uri \in DOMAIN documents' /\ documents'[note.uri] = note.text)]_vars

--------------------------------------------------------------------------
(* Properties of the Diagnostic Extractor *)

\* the nodes of the tree below n, each named by the child numbers leading to it
RECURSIVE Paths(_)
Paths(n) ==
    {<<>>} \cup UNION {{<<i>> \o q : q \in Paths(n.children[i])} :
                          i \in 1..Len(n.children)}

RECURSIVE NodeAt(_, _)
NodeAt(n, path) ==
    IF path = <<>> THEN n ELSE NodeAt(n.children[Head(path)], Tail(path))

IsPrefix(a, b) == Len(a) <= Len(b) /\ SubSeq(b, 1, Len(a)) = a

\* a is visited before b in pre-order: a parent before the nodes below it,
\* a child and the nodes below it before its later siblings
Before(a, b) ==
    \/ a # b /\ IsPrefix(a, b)
    \/ \E k \in 1..Min(Len(a), Len(b)) :
          /\ SubSeq(a, 1, k - 1) = SubSeq(b, 1, k - 1)
          /\ a[k] < b[k]

IsErrorOrMissing(n) == n.type = "ERROR" \/ n.is_missing

Reported(root) == {a \in Paths(root) : IsErrorOrMissing(NodeAt(root, a))}

\* the place of node a among the reported nodes, in pre-order
Rank(root, a) == Cardinality({b \in Reported(root) : Before(b, a)}) + 1

\* C9: the diagnostics of a tree are its ERROR and missing nodes, one
\* diagnostic per node with the node's range and severity Error, in pre-order;
\* nodes below an ERROR node are reported too.
C9_EveryErrorNodeInPreOrder ==
    (xpc = "done" /\ tree # None) =>
        LET root == tree.root_node
        IN  /\ Len(diagnostics) = Cardinality(Reported(root))
            /\ \A a \in Reported(root) :
                  LET d == diagnostics[Rank(root, a)]
                      n == NodeAt(root, a)
                  IN  /\ d.range = NodeToRange(n)
                      /\ d.severity = "Error"
                      /\ d.message =
                            IF n.type = "ERROR"
                            THEN SyntaxErrorMessage(Slice(text, n.start_byte, n.end_byte))
                            ELSE MissingTokenMessage

C9_Witness ==
    /\ xpc = "done"
    /\ tree # None
    /\ tree.root_node.type = "ERROR"
    /\ Len(tree.root_node.children) = 2
    /\ \E a \in Reported(tree.root_node) :
          Len(a) = 2 /\ NodeAt(tree.root_node, <<a[1]>>).type = "ERROR"
    /\ Len(diagnostics) = 3

IsErrorAndMissing(n) == n.type = "ERROR" /\ n.is_missing

\* C10: a node that is both of type ERROR and missing has one diagnostic, the
\* "Syntax error" one; the diagnostic after it belongs to the next reported
\* node in pre-order, which is a node below it when one is reported.
C10_ErrorTakesPrecedence ==
    (xpc = "done" /\ tree # None) =>
        LET root == tree.root_node
        IN  \A a \in Paths(root) :
               IsErrorAndMissing(NodeAt(root, a)) =>
                  LET r == Rank(root, a)
                      n == NodeAt(root, a)
                      later == {b \in Reported(root) : Rank(root, b) = r + 1}
                  IN  /\ r <= Len(diagnostics)
                      /\ diagnostics[r].range = NodeToRange(n)
                      /\ diagnostics[r].message.fmt = "Syntax error: '{}'"
                      /\ Len(diagnostics) = Cardinality(Reported(root))
                      /\ \A b \in later :
                            /\ diagnostics[r + 1].range = NodeToRange(NodeAt(root, b))
                            /\ (\E c \in Reported(root) : c # a /\ IsPrefix(a, c)) =>
                                  IsPrefix(a, b)

C10_Witness ==
    /\ xpc = "done"
    /\ tree # None
    /\ IsErrorAndMissing(tree.root_node)
    /\ Len(tree.root_node.children) = 1
    /\ tree.root_node.children[1].is_missing
    /\ tree.root_node.children[1].type # "ERROR"
    /\ Len(diagnostics) = 2
    /\ diagnostics[1].message.fmt = "Syntax error: '{}'"
    /\ diagnostics[2].message = MissingTokenMessage

--------------------------------------------------------------------------
(* Properties of the analysis of a text *)

\* number of UTF-8 bytes of the first k characters of t
ByteOffset(t, k) == Len(Encode(SubSeq(t, 1, k)))

\* the characters of t whose UTF-8 bytes are the bytes i..j-1 of its encoding
SpannedText(t, i, j) ==
    LET first == CHOOSE k \in 0..Len(t) : ByteOffset(t, k) = i
        last == CHOOSE k \in 0..Len(t) : ByteOffset(t, k) = j
    IN  SubSeq(t, first + 1, last)

\* C11: the message of the diagnostic of every ERROR node of the tree parsed
\* from a text is "Syntax error: '<substring>'" with the characters of the text
\* that the node spans, the span being byte offsets into the UTF-8 encoding.
C11_MessageIsExactSubstring ==
    (xpc = "done" /\ tree # None) =>
        LET root == tree.root_node
        IN  \A a \in Reported(root) :
               LET n == NodeAt(root, a)
               IN  n.type = "ERROR" =>
                      diagnostics[Rank(root, a)].message =
                          SyntaxErrorMessage(SpannedText(text, n.start_byte, n.end_byte))

\* the same for texts of one-byte characters only
C11_AsciiMessageIsExactSubstring ==
    (xpc = "done" /\ tree # None /\ \A k \in 1..Len(text) : text[k] # Wide) =>
        LET root == tree.root_node
        IN  \A a \in Reported(root) :
               LET n == NodeAt(root, a)
               IN  n.type = "ERROR" =>
                      diagnostics[Rank(root, a)].message =
                          SyntaxErrorMessage(SpannedText(text, n.start_byte, n.end_byte))

--------------------------------------------------------------------------
(* Properties of the event loop *)

\* the notifications that arrived and whose handler has not run to its end
InFlight == (IF pc = "handling" THEN <<note>> ELSE <<>>) \o tasks

RECURSIVE Replay(_, _)
Replay(store, ns) ==
    IF ns = <<>> THEN store ELSE Replay(SerialHandle(store, Head(ns)), Tail(ns))

\* C12: every scheduled handler is run from its first line to its end in one
\* turn of the loop, so no handler waits between its read of the store and
\* its publish; and no update is lost: handling the notifications still in
\* flight one by one on the present store gives what handling every
\* notification alone in arrival order gives.
C12_HandlersRunOneByOne ==
    /\ \A i \in 1..Len(tasks) : DOMAIN tasks[i] \subseteq {"op", "uri", "text", "changes"}
    /\ pc = "handling" => DOMAIN note \subseteq {"op", "uri", "text", "changes"}
    /\ Replay([documents |-> documents, published |-> published], InFlight) = serial

C12_Witness ==
    /\ pc = "handling"
    /\ note.op = "change"
    /\ note.changes # <<>>
    /\ note.changes[1].range # None
    /\ note.uri \in DOMAIN documents
    /\ documents[note.uri] # <<>>
    /\ tasks # <<>>
    /\ tasks[1].uri = note.uri
    /\ serial.documents[note.uri] # documents[note.uri]

--------------------------------------------------------------------------
(* Properties of the Diagnostic Extractor on trees without error nodes *)

\* C18: for a tree that parsed, the extractor returns the empty list when no
\* node is of type ERROR or missing, whatever the root's has_error flag; and
\* it never returns a diagnostic with the range (0,0)-(0,0) that belongs to no
\* node of the tree, nor the parse-failure message.
C18_NoSynthesizedDiagnostic ==
    (xpc = "done" /\ tree # None) =>
        /\ Reported(tree.root_node) = {} => diagnostics = <<>>
        /\ \A i \in 1..Len(diagnostics) :
              /\ diagnostics[i].message # ParseFailedMessage
              /\ \E a \in Reported(tree.root_node) :
                    diagnostics[i].range = NodeToRange(NodeAt(tree.root_node, a))

C18_Witness ==
    /\ xpc = "done"
    /\ tree # None
    /\ tree.root_node.has_error
    /\ Len(tree.root_node.children) = 2
    /\ Reported(tree.root_node) = {}
    /\ diagnostics = <<>>

====
